---- MODULE Spec2Model ----
(***************************************************************************)
(* Review-AI backend (src/main.py): keyword sampling, prompt composition   *)
(* and the request handlers of the Flask application.                      *)
(*                                                                         *)
(* Strings that the code builds from parts (the prompt, the URLs, error    *)
(* messages) are sequences of tokens, so that joining, quoting and         *)
(* stripping are computed rather than assumed.  A Python call either       *)
(* returns or raises: its outcome is a record with a field "raised"        *)
(* ("none" when it returned).  A call that draws random numbers is the set *)
(* of its possible outcomes.                                               *)
(***************************************************************************)
EXTENDS Integers, Sequences, FiniteSets, TLC

VARIABLES
    GOOGLE_PLACES_API_KEY, \* module global read from the environment at import
    pc,                    \* position of the request being served
    route,                 \* which handler serves it
    request,               \* the request body as get_json() sees it
    selected,              \* local of generate_review
    keywords,              \* local of generate_review: the dict load_keywords() built
    prompt,                \* local of generate_review
    review,                \* local of generate_review
    place_id,              \* local of generate_review / get_restaurant_info
    groq_reply,            \* what the text-generation call did
    places_reply,          \* what the places HTTP call did
    calls,                 \* external calls issued while serving this request, in order
    response,              \* what the handler returned
    keywords_seen,         \* every distinct payload GET /api/keywords has returned
    call,                  \* a direct call of one of the helper functions
    result                 \* its outcome

vars == <<GOOGLE_PLACES_API_KEY, pc, route, request, selected, keywords, prompt,
          review, place_id, groq_reply, places_reply, calls, response,
          keywords_seen, call, result>>

server_vars == <<GOOGLE_PLACES_API_KEY, pc, route, request, selected, keywords,
                 prompt, review, place_id, groq_reply, places_reply, calls,
                 response, keywords_seen>>

(***************************************************************************)
(* Bounds of the model.                                                    *)
(***************************************************************************)
MaxSelected == 1     \* longest selectedKeywords list a request carries
NBackend    == 2     \* how many of the backend phrases served requests sample from
NSeo        == 1     \* how many of the SEO terms served requests sample from
MaxBackend  == 3     \* longest backend list passed to generate_prompt directly
MaxTable    == 2     \* largest SEO table passed to select_weighted_seo directly
MaxCount    == 3     \* largest count passed to select_weighted_seo directly
MaxWeight   == 2     \* largest weight in such a table

(***************************************************************************)
(* Values.                                                                 *)
(***************************************************************************)
None == [type |-> "null"]
Str(s) == [type |-> "string", value |-> s]
List(items) == [type |-> "list", items |-> items]

\* Python truthiness of a JSON value: None, "" and [] are falsy.
Truthy(v) ==
    CASE v.type = "null"   -> FALSE
      [] v.type = "string" -> v.value # ""
      [] v.type = "list"   -> Len(v.items) > 0

Returned(v) == [raised |-> "none", value |-> v]
Raised(e, msg) == [raised |-> e, message |-> msg]

Range(s) == {s[i] : i \in DOMAIN s}
SeqsUpTo(S, n) == UNION {[1..m -> S] : m \in 0..n}

RECURSIVE SumSeq(_)
SumSeq(s) == IF Len(s) = 0 THEN 0 ELSE s[1] + SumSeq(Tail(s))

RECURSIVE Occurrences(_, _)
Occurrences(x, s) ==
    IF Len(s) = 0 THEN 0
    ELSE (IF s[1] = x THEN 1 ELSE 0) + Occurrences(x, Tail(s))

(***************************************************************************)
(* Module constants.                                                       *)
(***************************************************************************)
RESTAURANT_NAME == <<"Hari", " ", "Krushna", " ", "Dal", " ", "Pakwan">>

RESTAURANT_ADDRESS ==
    <<"24", ",", " ", "Ambika", " ", "Pinakal", ",", " ", "Lajamni", " ", "Chowk",
      ",", " ", "Maruti", " ", "Dham", " ", "Society", ",", " ", "Mota", " ",
      "Varachha", ",", " ", "Surat", ",", " ", "Gujarat", " ", "394101">>

USER_KEYWORDS ==
    <<"delicious", "amazing", "fantastic", "excellent", "outstanding",
      "tasty", "authentic", "fresh", "crispy", "spicy",
      "flavorful", "traditional", "hygienic", "affordable", "quick service",
      "friendly staff", "clean", "homely", "perfect", "mouth-watering">>

BACKEND_KEYWORDS ==
    <<"highly recommend", "great experience", "will visit again", "worth trying",
      "exceeded expectations", "perfect taste", "amazing quality", "best in surat",
      "authentic gujarati", "reasonable price", "excellent service",
      "fresh preparation">>

SEO_KEYWORDS ==
    <<[word |-> "dal pakwan", weight |-> 10],
      [word |-> "gujarati food", weight |-> 9],
      [word |-> "surat restaurant", weight |-> 8],
      [word |-> "street food", weight |-> 7],
      [word |-> "traditional", weight |-> 6],
      [word |-> "authentic", weight |-> 8],
      [word |-> "quality", weight |-> 7],
      [word |-> "taste", weight |-> 9],
      [word |-> "snacks", weight |-> 5],
      [word |-> "mota varachha", weight |-> 4]>>

\* The dict load_keywords() builds afresh on every call.  The lists are the
\* code's, cut to their first NBackend and NSeo entries: sampling depends on a
\* list only through its length, its entries and their weights.
load_keywords ==
    [user_keywords    |-> USER_KEYWORDS,
     backend_keywords |-> SubSeq(BACKEND_KEYWORDS, 1, NBackend),
     seo_keywords     |-> SubSeq(SEO_KEYWORDS, 1, NSeo)]

(***************************************************************************)
(* The random module.                                                      *)
(***************************************************************************)
\* random.choices mistaken for a draw without replacement: more draws than
\* entries are refused.
random_choices_without_replacement(population, weights, k) ==
    IF Len(population) = 0
    THEN {Raised("IndexError", "list index out of range")}
    ELSE IF k > Len(population)
    THEN {Raised("ValueError", "Sample larger than population or is negative")}
    ELSE {Returned([j \in 1..k |-> population[idx[j]]]) :
            idx \in {f \in [1..k -> {i \in DOMAIN population : weights[i] > 0}] :
                       \A a, b \in 1..k : a # b => f[a] # f[b]}}

\* random.choices behind a guard that answers an empty table with an empty list.
random_choices_empty_ok(population, weights, k) ==
    IF Len(population) = 0
    THEN {Returned(<<>>)}
    ELSE IF SumSeq(weights) <= 0
    THEN {Raised("ValueError", "Total of weights must be greater than zero")}
    ELSE {Returned([j \in 1..k |-> population[idx[j]]]) :
            idx \in [1..k -> {i \in DOMAIN population : weights[i] > 0}]}

\* random.choices(population, weights=weights, k=k): k independent draws, an
\* entry being drawn with probability proportional to its weight.  An empty
\* population fails on cum_weights[-1]; a total of zero is rejected.
random_choices(population, weights, k) ==
    IF Len(population) = 0
    THEN {Raised("IndexError", "list index out of range")}
    ELSE IF SumSeq(weights) <= 0
    THEN {Raised("ValueError", "Total of weights must be greater than zero")}
    ELSE {Returned([j \in 1..k |-> population[idx[j]]]) :
            idx \in [1..k -> {i \in DOMAIN population : weights[i] > 0}]}

\* Two independent draws instead of a sample: a position can be drawn twice.
random_sample_with_replacement(population, k) ==
    IF k > Len(population)
    THEN {Raised("ValueError", "Sample larger than population or is negative")}
    ELSE {[raised     |-> "none",
           value      |-> [j \in 1..k |-> population[idx[j]]],
           population |-> population] :
            idx \in [1..k -> DOMAIN population]}

\* A sample that pops what it draws from the caller's list.
random_sample_popping(population, k) ==
    IF k > Len(population)
    THEN {Raised("ValueError", "Sample larger than population or is negative")}
    ELSE {[raised     |-> "none",
           value      |-> [j \in 1..k |-> population[idx[j]]],
           population |-> SelectSeq(population,
                              LAMBDA x : \A j \in 1..k : x # population[idx[j]])] :
            idx \in {f \in [1..k -> DOMAIN population] :
                       \A a, b \in 1..k : a # b => f[a] # f[b]}}

\* random.sample(population, k): k entries at k different positions.  The
\* population is copied before it is drawn from, so the caller's list is as
\* it was.
random_sample(population, k) ==
    IF k > Len(population)
    THEN {Raised("ValueError", "Sample larger than population or is negative")}
    ELSE {[raised     |-> "none",
           value      |-> [j \in 1..k |-> population[idx[j]]],
           population |-> population] :
            idx \in {f \in [1..k -> DOMAIN population] :
                       \A a, b \in 1..k : a # b => f[a] # f[b]}}

\* random.shuffle(x): x rearranged, every arrangement possible.
random_shuffle(x) ==
    {[i \in 1..Len(x) |-> x[p[i]]] : p \in Permutations(1..Len(x))}

(***************************************************************************)
(* select_weighted_seo and generate_prompt.                                *)
(***************************************************************************)
select_weighted_seo(seo_keywords, count) ==
    LET words   == [i \in DOMAIN seo_keywords |-> seo_keywords[i].word]
        weights == [i \in DOMAIN seo_keywords |-> seo_keywords[i].weight]
    IN  random_choices(words, weights, count)

\* ', '.join(items)
RECURSIVE join(_, _)
join(sep, items) ==
    IF Len(items) = 0 THEN <<>>
    ELSE IF Len(items) = 1 THEN <<items[1]>>
    ELSE <<items[1], sep>> \o join(sep, Tail(items))

PROMPT_HEAD == "You're a satisfied customer leaving a short review (under 50 words) about 'Hari Krushna Dal Pakwan' - a popular dal pakwan restaurant in Surat, Gujarat. Make it sound human, sincere, and natural. Use the following keywords organically in the review:\n"
PROMPT_TAIL == ".\nKeep the tone friendly and helpful. Focus on the food quality, taste, and dining experience. Mention specific items like dal pakwan if appropriate."

\* The SEO terms left out of the sum.
concat_keywords_no_seo(user_keywords, backend, seo) == user_keywords \o backend

\* user_keywords + backend + seo
concat_keywords(user_keywords, backend, seo) == user_keywords \o backend \o seo

\* One outcome per way the random draws can fall.  An outcome that returned
\* carries the prompt, the locals backend, seo and all_keywords, and the two
\* arguments as the call left them (Python passes both by reference).
generate_prompt(user_keywords, keyword_data) ==
    UNION {
      IF b.raised # "none" THEN {b}
      ELSE UNION {
        IF s.raised # "none" THEN {s}
        ELSE IF user_keywords.type # "list"
        THEN {Raised("TypeError", "can only concatenate str (not \"list\") to str")}
        ELSE {[raised        |-> "none",
               value         |-> <<PROMPT_HEAD>> \o join(", ", all_keywords) \o <<PROMPT_TAIL>>,
               backend       |-> b.value,
               seo           |-> s.value,
               all_keywords  |-> all_keywords,
               user_keywords |-> user_keywords,
               keyword_data  |-> [keyword_data EXCEPT
                                    !.backend_keywords = b.population]] :
                all_keywords \in
                  random_shuffle(concat_keywords(user_keywords.items, b.value, s.value))}
        : s \in select_weighted_seo(keyword_data.seo_keywords, 2)}
      : b \in random_sample(keyword_data.backend_keywords, 2)}

(***************************************************************************)
(* Pieces of the handlers.  A frame holds the locals of the request being  *)
(* served; the handlers are functions from frames to frames, cut where the *)
(* code waits for an external service.                                     *)
(***************************************************************************)
NewRequest(rt, body) ==
    [pc |-> "running", route |-> rt, request |-> body, selected |-> None,
     keywords |-> None, prompt |-> None, review |-> None, place_id |-> None,
     groq_reply |-> None, places_reply |-> None, calls |-> <<>>,
     response |-> None]

respond(f, resp) == [f EXCEPT !.pc = "done", !.response = resp]

\* request.get_json(): the parsed body, or an HTTP exception when the body is
\* not JSON (wrong content type, syntax error).
get_json(body) ==
    IF body.kind = "unparsable"
    THEN Raised("HTTPException", "415 Unsupported Media Type")
    ELSE Returned(body.data)

\* data.get(key, default)
dict_get(data, key, default) ==
    IF data.type # "object"
    THEN Raised("AttributeError", "object has no attribute 'get'")
    ELSE Returned(IF key \in data.keys THEN data[key] ELSE default)

\* str.strip()
Whitespace == {" ", "\n"}

RECURSIVE lstrip(_)
lstrip(s) == IF Len(s) > 0 /\ s[1] \in Whitespace THEN lstrip(Tail(s)) ELSE s

RECURSIVE rstrip(_)
rstrip(s) ==
    IF Len(s) > 0 /\ s[Len(s)] \in Whitespace
    THEN rstrip(SubSeq(s, 1, Len(s) - 1))
    ELSE s

strip(s) == rstrip(lstrip(s))

\* requests.utils.quote: letters and digits are kept, a space and a comma are
\* percent-encoded.
quote(s) ==
    [i \in DOMAIN s |->
        IF s[i] = " " THEN "%20" ELSE IF s[i] = "," THEN "%2C" ELSE s[i]]

google_search_url ==
    <<"https://www.google.com/search?q=">>
        \o quote(RESTAURANT_NAME \o <<" ">> \o RESTAURANT_ADDRESS
                 \o <<" ", "write", " ", "review">>)

\* The review URL both handlers build from place_id.
google_review_url(pid) ==
    IF Truthy(pid)
    THEN <<"https://search.google.com/local/writereview?placeid=", pid.value>>
    ELSE google_search_url

\* A 500 that does not say what failed.
error_response_generic(e) ==
    [status |-> 500, body |-> [error |-> <<"Review generation failed">>]]

\* except Exception as e: ... 500
error_response(e) ==
    [status |-> 500, body |-> [error |-> <<"Review generation failed: ", e.message>>]]

\* The body of the try block of get_google_place_id, from the answer of
\* requests.get on.
lookup_try(reply) ==
    IF reply.kind = "exception"
    THEN Raised("ConnectionError", "Max retries exceeded")
    ELSE IF reply.kind = "not_json"
    THEN Raised("JSONDecodeError", "Expecting value")
    ELSE LET status     == dict_get(reply.data, "status", None)
             candidates == dict_get(reply.data, "candidates", None)
         IN  IF status.raised # "none" THEN status
             ELSE IF /\ status.value.type = "string"
                     /\ status.value.value = "OK"
                     /\ Truthy(candidates.value)
             THEN LET first == candidates.value.items[1]
                  IN  IF "place_id" \in first.keys
                      THEN Returned(first.place_id)
                      ELSE Raised("KeyError", "'place_id'")
             ELSE Returned(None)

\* get_google_place_id without its except clause.
place_id_from_uncaught(reply) == lookup_try(reply)

\* get_google_place_id that takes the first candidate whatever the status says.
place_id_from_any_status(reply) ==
    IF /\ reply.kind = "json"
       /\ reply.data.type = "object"
       /\ "candidates" \in reply.data.keys
       /\ Truthy(reply.data.candidates)
       /\ "place_id" \in reply.data.candidates.items[1].keys
    THEN Returned(reply.data.candidates.items[1].place_id)
    ELSE Returned(None)

\* get_google_place_id once requests.get has answered: whatever the try block
\* raises is printed and None returned.
place_id_from(reply) ==
    LET r == lookup_try(reply)
    IN  IF r.raised # "none" THEN Returned(None) ELSE r

\* generate_review from place_id = get_google_place_id() on.
generate_review_finish(f, got) ==
    IF got.raised # "none" THEN respond(f, error_response(got))
    ELSE respond([f EXCEPT !.place_id = got.value],
                 [status |-> 200,
                  body   |-> [review             |-> f.review,
                              prompt             |-> f.prompt,
                              restaurant_name    |-> RESTAURANT_NAME,
                              restaurant_address |-> RESTAURANT_ADDRESS,
                              place_id           |-> got.value,
                              google_review_url  |-> google_review_url(got.value)]])

\* get_restaurant_info from place_id = get_google_place_id() on.  The handler
\* has no try block: an exception would be the framework's 500.
get_restaurant_info_finish(f, got) ==
    IF got.raised # "none"
    THEN respond(f, [status |-> 500, body |-> [error |-> <<"Internal Server Error">>]])
    ELSE respond([f EXCEPT !.place_id = got.value],
                 [status |-> 200,
                  body   |-> [name              |-> RESTAURANT_NAME,
                              address           |-> RESTAURANT_ADDRESS,
                              place_id          |-> got.value,
                              google_search_url |-> google_search_url,
                              google_review_url |-> google_review_url(got.value)]])

after_lookup(f, got) ==
    IF f.route = "generate_review"
    THEN generate_review_finish(f, got)
    ELSE get_restaurant_info_finish(f, got)

\* get_google_place_id up to requests.get: without a key it returns None at
\* once, with one it sends the request.
lookup_begin(f, api_key) ==
    IF ~Truthy(api_key)
    THEN after_lookup(f, Returned(None))
    ELSE [f EXCEPT !.pc = "places_wait", !.calls = Append(@, "places")]

\* generate_review up to client.chat.completions.create.
generate_review_enter(body) ==
    LET f0   == NewRequest("generate_review", body)
        data == get_json(body)
    IN  IF data.raised # "none" THEN {respond(f0, error_response(data))}
        ELSE LET sel == dict_get(data.value, "selectedKeywords", List(<<>>))
             IN  IF sel.raised # "none" THEN {respond(f0, error_response(sel))}
                 ELSE IF ~Truthy(sel.value)
                 THEN {respond([f0 EXCEPT !.selected = sel.value],
                               [status |-> 400,
                                body   |-> [error |-> <<"No keywords provided">>]])}
                 ELSE {IF g.raised # "none"
                       THEN respond([f0 EXCEPT !.selected = sel.value,
                                               !.keywords = load_keywords],
                                    error_response(g))
                       ELSE [f0 EXCEPT !.selected = g.user_keywords,
                                       !.keywords = g.keyword_data,
                                       !.prompt   = g.value,
                                       !.pc       = "groq_wait",
                                       !.calls    = Append(@, "groq")] :
                         g \in generate_prompt(sel.value, load_keywords)}

\* generate_review that looks the place up whether or not a review came back.
generate_review_resume_always_lookup(f, reply, api_key) ==
    LET f1 == [f EXCEPT !.groq_reply = reply]
    IN  IF reply.raised = "none" /\ reply.value.type = "string"
        THEN lookup_begin([f1 EXCEPT !.review = strip(reply.value.value)], api_key)
        ELSE lookup_begin(f1, api_key)

\* generate_review from the answer of client.chat.completions.create up to
\* requests.get.
generate_review_resume(f, reply, api_key) ==
    LET f1 == [f EXCEPT !.groq_reply = reply]
    IN  IF reply.raised # "none" THEN respond(f1, error_response(reply))
        ELSE IF reply.value.type # "string"
        THEN respond(f1, error_response(
                 Raised("AttributeError", "'NoneType' object has no attribute 'strip'")))
        ELSE lookup_begin([f1 EXCEPT !.review = strip(reply.value.value)], api_key)

(***************************************************************************)
(* What the outside world can send.                                        *)
(***************************************************************************)
SelectableKeywords == {USER_KEYWORDS[1], USER_KEYWORDS[2]}

Object(field, v) == [type |-> "object", keys |-> {field}, selectedKeywords |-> v]

Bodies ==
    {[kind |-> "unparsable"],
     [kind |-> "json", data |-> None],
     [kind |-> "json", data |-> [type |-> "object", keys |-> {}]]}
    \cup {[kind |-> "json", data |-> Object("selectedKeywords", v)] :
            v \in {None, Str("tasty")}
                  \cup {List(q) : q \in SeqsUpTo(SelectableKeywords, MaxSelected)}}

GroqReplies ==
    {Raised("APIConnectionError", "Connection error."),
     Raised("APITimeoutError", "Request timed out."),
     Returned(None),
     Returned([type |-> "string",
               value |-> <<"\n", "Loved", " ", "the", " ", "dal", " ", "pakwan", " ">>])}

PlaceIds == <<"ChIJ-first", "ChIJ-second">>

Candidate(id) == [type |-> "object", keys |-> {"place_id"}, place_id |-> Str(id)]

PlacesData(st, cands) ==
    [type |-> "object", keys |-> {"status", "candidates"}, status |-> Str(st),
     candidates |-> cands]

PlacesReplies ==
    {[kind |-> "exception"],
     [kind |-> "not_json"],
     [kind |-> "json", data |-> List(<<>>)],
     [kind |-> "json", data |-> [type |-> "object", keys |-> {"status"},
                                  status |-> Str("REQUEST_DENIED")]],
     [kind |-> "json", data |-> PlacesData("ZERO_RESULTS", List(<<>>))],
     [kind |-> "json", data |-> PlacesData("OVER_QUERY_LIMIT",
                                           List(<<Candidate(PlaceIds[1])>>))],
     [kind |-> "json", data |-> PlacesData("OK", List(<<>>))],
     [kind |-> "json", data |-> PlacesData("OK",
                                  List(<<[type |-> "object", keys |-> {}]>>))],
     [kind |-> "json", data |-> PlacesData("OK",
                                  List(<<Candidate(PlaceIds[1]), Candidate(PlaceIds[2])>>))],
     [kind |-> "json", data |-> PlacesData("OK", List(<<Candidate(PlaceIds[2])>>))]}

(***************************************************************************)
(* The server: one request at a time (the handlers share no mutable state, *)
(* so requests served in parallel behave as they do one after another).    *)
(***************************************************************************)
Pending == [raised |-> "pending"]
NoCall == [fn |-> "none"]

Current ==
    [pc |-> pc, route |-> route, request |-> request, selected |-> selected,
     keywords |-> keywords, prompt |-> prompt, review |-> review,
     place_id |-> place_id, groq_reply |-> groq_reply,
     places_reply |-> places_reply, calls |-> calls, response |-> response]

Serve(f) ==
    /\ pc' = f.pc
    /\ route' = f.route
    /\ request' = f.request
    /\ selected' = f.selected
    /\ keywords' = f.keywords
    /\ prompt' = f.prompt
    /\ review' = f.review
    /\ place_id' = f.place_id
    /\ groq_reply' = f.groq_reply
    /\ places_reply' = f.places_reply
    /\ calls' = f.calls
    /\ response' = f.response

ServerIdle ==
    /\ pc = "idle"
    /\ route = "none"
    /\ request = None
    /\ selected = None
    /\ keywords = None
    /\ prompt = None
    /\ review = None
    /\ place_id = None
    /\ groq_reply = None
    /\ places_reply = None
    /\ calls = <<>>
    /\ response = None
    /\ keywords_seen = {}

\* The module has been imported: GROQ_API_KEY was set (the import raises
\* otherwise), GOOGLE_PLACES_API_KEY may or may not have been.
Init ==
    /\ GOOGLE_PLACES_API_KEY \in {None, Str("places-key")}
    /\ ServerIdle
    /\ call = NoCall
    /\ result = Pending

Ready == pc = "idle"

\* POST /api/generate-review arrives.
PostGenerateReview ==
    /\ Ready
    /\ \E body \in Bodies : \E f \in generate_review_enter(body) : Serve(f)
    /\ UNCHANGED <<GOOGLE_PLACES_API_KEY, keywords_seen, call, result>>

\* The text-generation service answers.
GroqAnswers ==
    /\ pc = "groq_wait"
    /\ \E reply \in GroqReplies :
          Serve(generate_review_resume(Current, reply, GOOGLE_PLACES_API_KEY))
    /\ UNCHANGED <<GOOGLE_PLACES_API_KEY, keywords_seen, call, result>>

\* GET /api/restaurant-info arrives.
GetRestaurantInfo ==
    /\ Ready
    /\ Serve(lookup_begin(NewRequest("restaurant_info", None), GOOGLE_PLACES_API_KEY))
    /\ UNCHANGED <<GOOGLE_PLACES_API_KEY, keywords_seen, call, result>>

\* The places service answers (or the connection fails).
PlacesAnswers ==
    /\ pc = "places_wait"
    /\ \E reply \in PlacesReplies :
          Serve(after_lookup([Current EXCEPT !.places_reply = reply],
                             place_id_from(reply)))
    /\ UNCHANGED <<GOOGLE_PLACES_API_KEY, keywords_seen, call, result>>

\* GET /api/keywords
GetKeywords ==
    /\ Ready
    /\ Serve(respond(NewRequest("keywords", None),
                     [status |-> 200, body |-> load_keywords]))
    /\ keywords_seen' = keywords_seen \cup {load_keywords}
    /\ UNCHANGED <<GOOGLE_PLACES_API_KEY, call, result>>

\* GET /health
Health ==
    /\ Ready
    /\ Serve(respond(NewRequest("health", None),
                     [status |-> 200,
                      body   |-> [status |-> "healthy", restaurant |-> RESTAURANT_NAME]]))
    /\ UNCHANGED <<GOOGLE_PLACES_API_KEY, keywords_seen, call, result>>

\* GET /: send_from_directory('.', 'index.html'), the file or a 404.
ServeIndex ==
    /\ Ready
    /\ \E found \in BOOLEAN :
          Serve(respond(NewRequest("index", None),
                        IF found
                        THEN [status |-> 200, body |-> [file |-> "index.html"]]
                        ELSE [status |-> 404, body |-> [error |-> <<"Not Found">>]]))
    /\ UNCHANGED <<GOOGLE_PLACES_API_KEY, keywords_seen, call, result>>

\* The handler's return value goes out and its locals are gone; the server
\* waits for the next request.
Deliver ==
    /\ pc = "done"
    /\ Serve([NewRequest("none", None) EXCEPT !.pc = "idle"])
    /\ UNCHANGED <<GOOGLE_PLACES_API_KEY, keywords_seen, call, result>>

Next ==
    \/ PostGenerateReview
    \/ GroqAnswers
    \/ GetRestaurantInfo
    \/ PlacesAnswers
    \/ GetKeywords
    \/ Health
    \/ ServeIndex
    \/ Deliver

Spec == Init /\ [][Next]_vars

(***************************************************************************)
(* Direct calls of the helpers, on arguments drawn from bounded sets.      *)
(***************************************************************************)
SeoWords == {SEO_KEYWORDS[1].word, SEO_KEYWORDS[2].word}
SeoTables == SeqsUpTo([word : SeoWords, weight : 0..MaxWeight], MaxTable)
BackendPhrases == {BACKEND_KEYWORDS[1], BACKEND_KEYWORDS[2]}

SeoCalls ==
    {[fn |-> "select_weighted_seo", seo_keywords |-> t, count |-> k] :
        t \in SeoTables, k \in 0..MaxCount}

\* generate_prompt on every keyword list a request can carry, and on one
\* keyword with every backend list up to MaxBackend (repeated phrases
\* included); the SEO table is the first MaxTable shipped terms.
DirectKeywordData ==
    [load_keywords EXCEPT !.seo_keywords = SubSeq(SEO_KEYWORDS, 1, MaxTable)]

PromptCalls ==
    {[fn |-> "generate_prompt", user_keywords |-> List(u),
      keyword_data |-> DirectKeywordData] :
        u \in SeqsUpTo(SelectableKeywords, MaxSelected)}
    \cup
    {[fn |-> "generate_prompt", user_keywords |-> List(<<USER_KEYWORDS[1]>>),
      keyword_data |-> [DirectKeywordData EXCEPT !.backend_keywords = b]] :
        b \in SeqsUpTo(BackendPhrases, MaxBackend)}

InitFn ==
    /\ GOOGLE_PLACES_API_KEY = None
    /\ ServerIdle
    /\ call \in SeoCalls \cup PromptCalls
    /\ result = Pending

ApplySelectWeightedSeo ==
    /\ call.fn = "select_weighted_seo"
    /\ result = Pending
    /\ result' \in select_weighted_seo(call.seo_keywords, call.count)
    /\ UNCHANGED <<call, server_vars>>

ApplyGeneratePrompt ==
    /\ call.fn = "generate_prompt"
    /\ result = Pending
    /\ result' \in generate_prompt(call.user_keywords, call.keyword_data)
    /\ UNCHANGED <<call, server_vars>>

NextFn == ApplySelectWeightedSeo \/ ApplyGeneratePrompt

SpecFn == InitFn /\ [][NextFn]_vars

(***************************************************************************)
(* Properties.                                                             *)
(***************************************************************************)
GroqCalls == Occurrences("groq", calls)
PlacesCalls == Occurrences("places", calls)

Finished(rt) == pc = "done" /\ route = rt

\* The body carries no keyword list, or an empty one.
NoKeywords(body) ==
    \/ body.kind = "unparsable"
    \/ /\ body.kind = "json"
       /\ \/ body.data.type # "object"
          \/ "selectedKeywords" \notin body.data.keys
          \/ body.data.selectedKeywords.type = "null"
          \/ /\ body.data.selectedKeywords.type = "list"
             /\ Len(body.data.selectedKeywords.items) = 0

\* The body carries a list of at least one keyword.
HasKeywords(body) ==
    /\ body.kind = "json"
    /\ body.data.type = "object"
    /\ "selectedKeywords" \in body.data.keys
    /\ body.data.selectedKeywords.type = "list"
    /\ Len(body.data.selectedKeywords.items) >= 1

GroqAnswered == "raised" \in DOMAIN groq_reply
GroqFailed == GroqAnswered /\ groq_reply.raised # "none"
GroqSucceeded ==
    GroqAnswered /\ groq_reply.raised = "none" /\ groq_reply.value.type = "string"

PlacesAnswered == "kind" \in DOMAIN places_reply

\* The places service reported success with at least one candidate, the first
\* of which carries an identifier.
IsMatch(reply) ==
    /\ reply.kind = "json"
    /\ reply.data.type = "object"
    /\ "status" \in reply.data.keys
    /\ reply.data.status = Str("OK")
    /\ "candidates" \in reply.data.keys
    /\ reply.data.candidates.type = "list"
    /\ Len(reply.data.candidates.items) >= 1
    /\ "place_id" \in reply.data.candidates.items[1].keys

Matched == Truthy(GOOGLE_PLACES_API_KEY) /\ PlacesAnswered /\ IsMatch(places_reply)

\* get_google_place_id has run to its end in the request being served.
LookupDone ==
    /\ pc = "done"
    /\ \/ route = "restaurant_info"
       \/ route = "generate_review" /\ GroqSucceeded

\* C1: a POST /api/generate-review request whose keyword list is missing or
\* empty ends with status 400, and neither external service has been called.
C1_NoKeywordsIs400 ==
    Finished("generate_review") /\ NoKeywords(request)
        => response.status = 400 /\ GroqCalls = 0 /\ PlacesCalls = 0

\* C1, the part about external calls alone: while such a request is served,
\* and when it has ended, no external service has been called.
C1_NoExternalCalls ==
    route = "generate_review" /\ NoKeywords(request) => calls = <<>>

\* C2: when the request carries at least one keyword and the text-generation
\* call fails, the request ends with status 500, the body carries the failure's
\* message, and the text-generation service was called exactly once.
C2_GenerationFailureIs500 ==
    Finished("generate_review") /\ HasKeywords(request) /\ GroqFailed
        => /\ response.status = 500
           /\ response.body.error = <<"Review generation failed: ", groq_reply.message>>
           /\ GroqCalls = 1

C2_Witness ==
    /\ Finished("generate_review")
    /\ HasKeywords(request)
    /\ GroqFailed
    /\ groq_reply.message = "Request timed out."
    /\ response.status = 500

\* C3: a places lookup that fails (no key configured, connection failure,
\* response that is not JSON or not of the expected shape, non-OK status, no
\* candidates) is never an error: the lookup yields None, and the request - a
\* review whose text was generated, or restaurant-info - ends with status 200,
\* place_id null and the search URL as review URL.
C3_LookupFailureDegrades ==
    LookupDone /\ ~Matched
        => /\ place_id = None
           /\ response.status = 200
           /\ response.body.place_id = None
           /\ response.body.google_review_url = google_search_url

C3_Witness ==
    /\ LookupDone
    /\ route = "generate_review"
    /\ PlacesAnswered
    /\ places_reply.kind = "not_json"
    /\ response.status = 200
    /\ response.body.place_id = None

\* C4: in a 200 response of generate-review or restaurant-info the review URL
\* is the deep link on the first candidate's identifier, and place_id that
\* identifier, exactly when the places service reported a match; otherwise the
\* URL is the search URL built from name and address and place_id is null.
C4_ReviewUrlFollowsMatch ==
    pc = "done" /\ route \in {"generate_review", "restaurant_info"}
                /\ response.status = 200
        => IF Matched
           THEN LET first == places_reply.data.candidates.items[1].place_id
                IN  /\ response.body.place_id = first
                    /\ response.body.google_review_url =
                         <<"https://search.google.com/local/writereview?placeid=",
                           first.value>>
           ELSE /\ response.body.place_id = None
                /\ response.body.google_review_url = google_search_url

C4_Witness ==
    /\ Finished("generate_review")
    /\ response.status = 200
    /\ Matched
    /\ Len(places_reply.data.candidates.items) = 2
    /\ response.body.place_id = Str(PlaceIds[1])

\* C5: within one generate-review request each service is called at most once,
\* text generation first; the places call is issued only once text generation
\* has returned a review, never after it failed.
C5_CallsInOrder ==
    route = "generate_review"
        => /\ calls \in {<<>>, <<"groq">>, <<"groq", "places">>}
           /\ PlacesCalls > 0 => GroqSucceeded
           /\ GroqFailed => PlacesCalls = 0

C5_Witness ==
    /\ route = "generate_review"
    /\ pc = "places_wait"
    /\ calls = <<"groq", "places">>

\* The keywords between the head and the tail of a prompt.
PromptEntries(p) == SelectSeq(SubSeq(p, 2, Len(p) - 1), LAMBDA t : t # ", ")

IsPermutation(a, b) ==
    /\ Len(a) = Len(b)
    /\ \A x \in Range(a) \cup Range(b) : Occurrences(x, a) = Occurrences(x, b)

PromptCalled == call.fn = "generate_prompt" /\ result # Pending
SeoCalled == call.fn = "select_weighted_seo" /\ result # Pending

\* C6: for a non-empty list of supplied keywords (and keyword data that can be
\* sampled from) the keyword list joined into the prompt is a permutation of
\* supplied keywords + 2 backend phrases + 2 SEO terms: len(supplied) + 4
\* entries, the same multiset, so every supplied keyword is in the prompt.
C6_PromptIsPermutation ==
    (PromptCalled /\ Len(call.user_keywords.items) >= 1
                  /\ Len(call.keyword_data.backend_keywords) >= 2)
        => /\ result.raised = "none"
           /\ Len(result.backend) = 2
           /\ Len(result.seo) = 2
           /\ LET entries  == PromptEntries(result.value)
                  supplied == call.user_keywords.items
              IN  /\ Len(entries) = Len(supplied) + 4
                  /\ IsPermutation(entries, supplied \o result.backend \o result.seo)
                  /\ \A i \in DOMAIN supplied : supplied[i] \in Range(result.value)

C6_Witness ==
    /\ PromptCalled
    /\ result.raised = "none"
    /\ Len(call.user_keywords.items) >= 1
    /\ PromptEntries(result.value)[1] = result.seo[2]
    /\ PromptEntries(result.value)[5] = call.user_keywords.items[1]

\* C7 as stated: whenever the backend list has at least 2 distinct entries,
\* sampling yields exactly 2 phrases, both from the list, never equal.
C7_DistinctWheneverTwoDistinctEntries ==
    PromptCalled /\ Cardinality(Range(call.keyword_data.backend_keywords)) >= 2
        => /\ result.raised = "none"
           /\ Len(result.backend) = 2
           /\ Range(result.backend) \subseteq Range(call.keyword_data.backend_keywords)
           /\ result.backend[1] # result.backend[2]

\* C7 as amended: whenever the backend list has at least 2 entries, sampling
\* yields exactly 2 phrases taken from 2 different positions of the list (no
\* phrase is in the sample more often than in the list); they are never equal
\* when the entries of the list are pairwise distinct.
C7_SampleWithoutReplacement ==
    PromptCalled /\ Len(call.keyword_data.backend_keywords) >= 2
        => LET list == call.keyword_data.backend_keywords
           IN  /\ result.raised = "none"
               /\ Len(result.backend) = 2
               /\ \A x \in Range(result.backend) :
                     /\ x \in Range(list)
                     /\ Occurrences(x, result.backend) <= Occurrences(x, list)
               /\ Cardinality(Range(list)) = Len(list)
                     => result.backend[1] # result.backend[2]

C7_Witness ==
    /\ PromptCalled
    /\ result.raised = "none"
    /\ Len(call.keyword_data.backend_keywords) = 3
    /\ Cardinality(Range(call.keyword_data.backend_keywords)) = 2
    /\ result.backend[1] # result.backend[2]

AllWeightsPositive(t) == \A i \in DOMAIN t : t[i].weight > 0

\* C8: for a non-empty SEO table with positive weights and any count k, also
\* one above the size of the table, select_weighted_seo returns exactly k
\* terms, each the word of an entry of the table (repeats allowed).
C8_SeoReturnsCountTerms ==
    (SeoCalled /\ Len(call.seo_keywords) >= 1
               /\ AllWeightsPositive(call.seo_keywords))
        => /\ result.raised = "none"
           /\ Len(result.value) = call.count
           /\ \A j \in DOMAIN result.value :
                 \E i \in DOMAIN call.seo_keywords :
                    result.value[j] = call.seo_keywords[i].word

\* A count above the size of the table, and a term drawn twice although the
\* table holds two different words.
C8_Witness ==
    /\ SeoCalled
    /\ AllWeightsPositive(call.seo_keywords)
    /\ Len(call.seo_keywords) = 2
    /\ call.seo_keywords[1].word # call.seo_keywords[2].word
    /\ call.count = 3
    /\ result.raised = "none"
    /\ result.value[1] = result.value[3]
    /\ result.value[1] # result.value[2]

\* C9 as stated: with an empty SEO table select_weighted_seo fails with an
\* InvalidInputError.
C9_EmptyTableRaisesInvalidInput ==
    SeoCalled /\ Len(call.seo_keywords) = 0 => result.raised = "InvalidInputError"

\* C9 as amended: with an empty SEO table select_weighted_seo does not return;
\* it fails with the IndexError that random.choices raises on an empty list.
C9_EmptyTableRaisesIndexError ==
    SeoCalled /\ Len(call.seo_keywords) = 0 => result.raised = "IndexError"

C9_Witness ==
    /\ SeoCalled
    /\ Len(call.seo_keywords) = 0
    /\ call.count = 2
    /\ result.raised = "IndexError"

\* C10: requests leave the keyword data as it was: once generate_prompt has
\* run, the dict it was given is still what load_keywords built and the
\* caller's list is still the list the request carried; and GET /api/keywords
\* has returned one and the same payload however often it was called.
C10_KeywordDataUnchanged ==
    /\ route = "generate_review" /\ GroqCalls > 0
          => /\ keywords = load_keywords
             /\ selected = request.data.selectedKeywords
    /\ Cardinality(keywords_seen) <= 1
    /\ Finished("keywords") => response.body = load_keywords /\ response.body \in keywords_seen

\* A review generated after GET /api/keywords has been served.
C10_Witness ==
    /\ Finished("generate_review")
    /\ response.status = 200
    /\ keywords_seen = {load_keywords}
    /\ keywords = load_keywords

====
